---------------------------- MODULE Spec2Model ----------------------------
(***************************************************************************)
(* PPE compliance monitor: the detection-to-compliance pipeline            *)
(* (src/ppe_detector.py, PPEDetector) and the face-embedding matcher       *)
(* (src/face_recognition_system.py, FaceRecognitionSystem).                *)
(*                                                                         *)
(* Numbers.  Confidences of detections are integers in hundredths          *)
(* (90 stands for 0.90).  A mean is kept exact, as the pair                *)
(* [num |-> sum, den |-> count]; 0.0 is [num |-> 0, den |-> 1] and NaN     *)
(* is [num |-> 0, den |-> 0].                                              *)
(***************************************************************************)
EXTENDS Integers, Sequences, FiniteSets, TLC

VARIABLES
    class_names,        \* PPEDetector.class_names
    violation_classes,  \* PPEDetector.violation_classes
    dpc,                \* position of the detect_ppe call: "idle", "loop", "done"
    boxes,              \* the boxes the model returned to the running call
    di,                 \* index (1-based) of the next box the loop converts
    detections,         \* local list `detections` of detect_ppe
    violations,         \* local list `violations` of detect_ppe
    raised,             \* TRUE iff a step of the last detect_ppe call raised
    verdict,            \* the record the last detect_ppe call returned
    other,              \* the locals and the return value of a second
                        \*   detect_ppe call, on another thread
    known_face_encodings,  \* FaceRecognitionSystem.known_face_encodings
    known_face_names,      \* FaceRecognitionSystem.known_face_names
    tolerance,             \* FaceRecognitionSystem.tolerance, in tenths
    lpc,                \* position of the load_known_faces call
    employees,          \* argument of the running (or last) load_known_faces
    li,                 \* index (1-based) of the employee the loop looks at
    old_encodings,      \* the registry as it was when load_known_faces was
    old_names,          \*   called (kept to state the claims)
    rpc,                \* position of the recognize_face call
    image,              \* the faces of the image given to recognize_face
    ri,                 \* index (1-based) of the face the loop looks at
    matches,            \* local `matches` of recognize_face
    face_distances,     \* local `face_distances` of recognize_face
    result,             \* what the last recognize_face call returned
    epc,                \* position of the encode_face_from_image call
    upload,             \* the faces of the image given to encode_face_from_image
    collaborators,      \* how face_recognition behaved in that call (kept to
                        \*   state the claims)
    encoded,            \* what the last encode_face_from_image call returned
    db,                 \* the rows of the table `employees` (database.py)
    annotations,        \* what draw_face_rectangle has drawn on the image
                        \*   that recognize_face was given
    session_state,      \* what the code has stored in st.session_state
    shown,              \* what the last run of show_admin_panel displayed
    login_form          \* the credentials of the last login attempt (kept
                        \*   to state the claims)

detvars == <<class_names, violation_classes, dpc, boxes, di, detections,
             violations, raised, verdict, other>>

regvars == <<known_face_encodings, known_face_names, tolerance>>

loadvars == <<lpc, employees, li, old_encodings, old_names>>

recvars == <<rpc, image, ri, matches, face_distances, result>>

facevars == <<regvars, loadvars, recvars>>

encvars == <<epc, upload, collaborators, encoded>>

panelvars == <<session_state, shown, login_form>>

adminvars == <<encvars, db, annotations, panelvars>>

vars == <<detvars, facevars, adminvars>>

-----------------------------------------------------------------------------
(* Bounds of the model *)

MaxBoxes == 3

MaxEmployees == 2

MaxFaces == 2

-----------------------------------------------------------------------------
(* config.py *)

PPE_CLASSES ==
    << "glove", "goggles", "helmet", "mask", "no-suit", "no_glove",
       "no_goggles", "no_helmet", "no_mask", "no_shoes", "shoes", "suit" >>

VIOLATION_CLASSES ==
    << "no_glove", "no_goggles", "no_helmet", "no_mask", "no_shoes", "no-suit" >>

-----------------------------------------------------------------------------
(* Inputs of detect_ppe: what the model can return *)

\* class ids of the boxes: helmet, no-suit, no_goggles, no_helmet, no_mask,
\* and an id outside the vocabulary (len(PPE_CLASSES) = 12)
ClassIdInputs == {2, 4, 6, 7, 8, 12}

ConfInputs == {50, 90}

\* xyxy corner coordinates, x2 >= x1 and y2 >= y1
XyxyInputs == { <<0, 1, 2, 4>>, <<3, 2, 7, 3>> }

BoxInputs ==
    { [cls |-> c, conf |-> p, xyxy |-> g] :
        c \in ClassIdInputs, p \in ConfInputs, g \in XyxyInputs }

SeqsUpTo(S, n) == UNION { [1..k -> S] : k \in 0..n }

\* the box lists the model can return for one image
DetectInputs == SeqsUpTo(BoxInputs, MaxBoxes)

NoVerdict == [compliance_status |-> "NONE"]

-----------------------------------------------------------------------------
(* Pure helpers of PPEDetector *)

InSeq(x, s) == \E i \in 1..Len(s) : s[i] = x

RECURSIVE SumConf(_)
SumConf(ds) ==
    IF ds = <<>> THEN 0 ELSE ds[1].confidence + SumConf(Tail(ds))

Zero == [num |-> 0, den |-> 1]

\* np.mean of a list: sum / count; of an empty list it is NaN (0/0)
np_mean(ds) == [num |-> SumConf(ds), den |-> Len(ds)]

average_confidence_unguarded(ds) == np_mean(ds)

\* line 88: np.mean([d['confidence'] for d in detections]) if detections else 0.0
average_confidence(ds) == IF ds # <<>> THEN np_mean(ds) ELSE Zero

get_violation_severity_no_default(violation_type) ==
    CASE violation_type = "no_helmet"  -> "CRITICAL"
      [] violation_type = "no_mask"    -> "HIGH"
      [] violation_type = "no-suit"    -> "HIGH"
      [] OTHER                         -> "LOW"

\* lines 102-112: severity_map.get(violation_type, 'MEDIUM')
get_violation_severity(violation_type) ==
    CASE violation_type = "no_helmet"  -> "CRITICAL"
      [] violation_type = "no_mask"    -> "HIGH"
      [] violation_type = "no_goggles" -> "MEDIUM"
      [] violation_type = "no_glove"   -> "MEDIUM"
      [] violation_type = "no_shoes"   -> "MEDIUM"
      [] violation_type = "no-suit"    -> "HIGH"
      [] OTHER                         -> "MEDIUM"

get_compliance_status_on_detections(dets, viols) ==
    IF Len(dets) = 0 THEN "COMPLIANT"
    ELSE IF 2 * Len(viols) >= Len(dets) THEN "VIOLATION"
    ELSE "PARTIAL"

get_compliance_status_strict(dets, viols) ==
    IF Len(viols) = 0 THEN "COMPLIANT"
    ELSE IF 2 * Len(viols) > Len(dets) THEN "VIOLATION"
    ELSE "PARTIAL"

get_compliance_status_renamed(dets, viols) ==
    IF Len(viols) = 0 THEN "COMPLIANT"
    ELSE IF 2 * Len(viols) >= Len(dets) THEN "NON_COMPLIANT"
    ELSE "PARTIAL"

\* lines 114-121; len(violations) >= len(detections) * 0.5 is compared
\* exactly as 2 * len(violations) >= len(detections)
get_compliance_status(dets, viols) ==
    IF Len(viols) = 0 THEN "COMPLIANT"
    ELSE IF 2 * Len(viols) >= Len(dets) THEN "VIOLATION"
    ELSE "PARTIAL"

\* lines 50-54
ClassName(class_id) ==
    IF class_id < Len(class_names)
    THEN class_names[class_id + 1]
    ELSE "object_" \o ToString(class_id)

\* lines 56-62
Detection(box) ==
    [ class_name |-> ClassName(box.cls),
      confidence |-> box.conf,
      bbox       |-> box.xyxy,
      width      |-> box.xyxy[3] - box.xyxy[1],
      height     |-> box.xyxy[4] - box.xyxy[2] ]

ViolationRecordOfCorners(box) ==
    [ violation_type |-> ClassName(box.cls),
      severity       |-> get_violation_severity(ClassName(box.cls)),
      confidence     |-> box.conf,
      bbox_x         |-> box.xyxy[1],
      bbox_y         |-> box.xyxy[2],
      bbox_width     |-> box.xyxy[3],
      bbox_height    |-> box.xyxy[4] ]

\* lines 68-76
ViolationRecord(box) ==
    [ violation_type |-> ClassName(box.cls),
      severity       |-> get_violation_severity(ClassName(box.cls)),
      confidence     |-> box.conf,
      bbox_x         |-> box.xyxy[1],
      bbox_y         |-> box.xyxy[2],
      bbox_width     |-> box.xyxy[3] - box.xyxy[1],
      bbox_height    |-> box.xyxy[4] - box.xyxy[2] ]

ReturnVerdictMeanOfViolations(dets, viols) ==
    [ detections         |-> dets,
      violations         |-> viols,
      total_detections   |-> Len(dets),
      violation_count    |-> Len(viols),
      compliance_status  |-> get_compliance_status(dets, viols),
      average_confidence |-> average_confidence(viols) ]

\* lines 82-89
ReturnVerdict(dets, viols) ==
    [ detections         |-> dets,
      violations         |-> viols,
      total_detections   |-> Len(dets),
      violation_count    |-> Len(viols),
      compliance_status  |-> get_compliance_status(dets, viols),
      average_confidence |-> average_confidence(dets) ]

FaultVerdictPartial(dets, viols) ==
    [ detections         |-> dets,
      violations         |-> viols,
      total_detections   |-> Len(dets),
      violation_count    |-> Len(viols),
      compliance_status  |-> "ERROR",
      average_confidence |-> Zero ]

\* lines 91-100: the except branch; the locals of the try body are dropped
FaultVerdict(dets, viols) ==
    [ detections         |-> <<>>,
      violations         |-> <<>>,
      total_detections   |-> 0,
      violation_count    |-> 0,
      compliance_status  |-> "ERROR",
      average_confidence |-> Zero ]

-----------------------------------------------------------------------------
(* detect_ppe, one step at a time *)

DetectorFields == <<class_names, violation_classes>>

\* lines 30-39: the model returns its boxes
detect_ppe_call(inputs) ==
    /\ dpc = "idle"
    /\ \E bs \in inputs : boxes' = bs
    /\ di' = 1
    /\ detections' = <<>>
    /\ violations' = <<>>
    /\ raised' = FALSE
    /\ verdict' = NoVerdict
    /\ dpc' = "loop"
    /\ UNCHANGED DetectorFields

\* line 36 raises: the except branch answers
detect_ppe_inference_raises ==
    /\ dpc = "idle"
    /\ boxes' = <<>>
    /\ di' = 1
    /\ detections' = <<>>
    /\ violations' = <<>>
    /\ raised' = TRUE
    /\ verdict' = FaultVerdict(<<>>, <<>>)
    /\ dpc' = "done"
    /\ UNCHANGED DetectorFields

detect_ppe_box_dropping_unknown ==
    /\ dpc = "loop"
    /\ di <= Len(boxes)
    /\ detections' =
          IF boxes[di].cls < Len(class_names)
          THEN Append(detections, Detection(boxes[di]))
          ELSE detections
    /\ violations' =
          IF InSeq(ClassName(boxes[di].cls), violation_classes)
          THEN Append(violations, ViolationRecord(boxes[di]))
          ELSE violations
    /\ di' = di + 1
    /\ UNCHANGED <<DetectorFields, dpc, boxes, raised, verdict>>

detect_ppe_box_refiltering ==
    /\ dpc = "loop"
    /\ di <= Len(boxes)
    /\ detections' =
          IF boxes[di].conf >= 60
          THEN Append(detections, Detection(boxes[di]))
          ELSE detections
    /\ violations' =
          IF boxes[di].conf >= 60
             /\ InSeq(ClassName(boxes[di].cls), violation_classes)
          THEN Append(violations, ViolationRecord(boxes[di]))
          ELSE violations
    /\ di' = di + 1
    /\ UNCHANGED <<DetectorFields, dpc, boxes, raised, verdict>>

\* lines 44-77: one turn of the loop over the boxes
detect_ppe_box ==
    /\ dpc = "loop"
    /\ di <= Len(boxes)
    /\ detections' = Append(detections, Detection(boxes[di]))
    /\ violations' =
          IF InSeq(ClassName(boxes[di].cls), violation_classes)
          THEN Append(violations, ViolationRecord(boxes[di]))
          ELSE violations
    /\ di' = di + 1
    /\ UNCHANGED <<DetectorFields, dpc, boxes, raised, verdict>>

\* lines 79-89: the loop is over, the verdict is built and returned
detect_ppe_return ==
    /\ dpc = "loop"
    /\ di > Len(boxes)
    /\ verdict' = ReturnVerdict(detections, violations)
    /\ detections' = <<>>
    /\ violations' = <<>>
    /\ dpc' = "done"
    /\ UNCHANGED <<DetectorFields, boxes, di, raised>>

\* a step after the inference raises (a box conversion of lines 46-48, or the
\* status and mean of lines 80-88): the except branch answers
detect_ppe_step_raises ==
    /\ dpc = "loop"
    /\ verdict' = FaultVerdict(detections, violations)
    /\ raised' = TRUE
    /\ detections' = <<>>
    /\ violations' = <<>>
    /\ dpc' = "done"
    /\ UNCHANGED <<DetectorFields, boxes, di>>

\* the caller has used the verdict and turns to its next frame
next_frame ==
    /\ dpc = "done"
    /\ dpc' = "idle"
    /\ boxes' = <<>>
    /\ di' = 1
    /\ raised' = FALSE
    /\ verdict' = NoVerdict
    /\ UNCHANGED <<DetectorFields, detections, violations>>

-----------------------------------------------------------------------------
(* A second detect_ppe call on the same PPEDetector, on another thread.    *)
(* Its locals are the fields of `other`; class_names and violation_classes *)
(* are those of the one detector.                                          *)

NoCall ==
    [ pc         |-> "idle",
      boxes      |-> <<>>,
      i          |-> 1,
      detections |-> <<>>,
      violations |-> <<>>,
      raised     |-> FALSE,
      verdict    |-> NoVerdict ]

DetectorLocals == <<dpc, boxes, di, detections, violations, raised, verdict>>

\* lines 30-39
detect_ppe_call_of_other(inputs) ==
    /\ other.pc = "idle"
    /\ \E bs \in inputs : other' = [NoCall EXCEPT !.pc = "loop", !.boxes = bs]
    /\ UNCHANGED <<DetectorFields, DetectorLocals>>

\* line 36 raises
detect_ppe_inference_raises_of_other ==
    /\ other.pc = "idle"
    /\ other' = [NoCall EXCEPT !.pc = "done",
                               !.raised = TRUE,
                               !.verdict = FaultVerdict(<<>>, <<>>)]
    /\ UNCHANGED <<DetectorFields, DetectorLocals>>

detect_ppe_box_of_other_sharing ==
    /\ other.pc = "loop"
    /\ other.i <= Len(other.boxes)
    /\ detections' = Append(detections, Detection(other.boxes[other.i]))
    /\ violations' =
          IF InSeq(ClassName(other.boxes[other.i].cls), violation_classes)
          THEN Append(violations, ViolationRecord(other.boxes[other.i]))
          ELSE violations
    /\ other' = [other EXCEPT !.i = other.i + 1]
    /\ UNCHANGED <<DetectorFields, dpc, boxes, di, raised, verdict>>

\* lines 44-77
detect_ppe_box_of_other ==
    /\ other.pc = "loop"
    /\ other.i <= Len(other.boxes)
    /\ other' =
          [other EXCEPT
             !.detections = Append(other.detections, Detection(other.boxes[other.i])),
             !.violations =
                 IF InSeq(ClassName(other.boxes[other.i].cls), violation_classes)
                 THEN Append(other.violations, ViolationRecord(other.boxes[other.i]))
                 ELSE other.violations,
             !.i = other.i + 1]
    /\ UNCHANGED <<DetectorFields, DetectorLocals>>

\* lines 79-89
detect_ppe_return_of_other ==
    /\ other.pc = "loop"
    /\ other.i > Len(other.boxes)
    /\ other' = [other EXCEPT
                    !.verdict = ReturnVerdict(other.detections, other.violations),
                    !.detections = <<>>,
                    !.violations = <<>>,
                    !.pc = "done"]
    /\ UNCHANGED <<DetectorFields, DetectorLocals>>

\* a step after the inference raises: the except branch answers
detect_ppe_step_raises_of_other ==
    /\ other.pc = "loop"
    /\ other' = [other EXCEPT
                    !.verdict = FaultVerdict(other.detections, other.violations),
                    !.raised = TRUE,
                    !.detections = <<>>,
                    !.violations = <<>>,
                    !.pc = "done"]
    /\ UNCHANGED <<DetectorFields, DetectorLocals>>

\* the other thread turns to its next frame
next_frame_of_other ==
    /\ other.pc = "done"
    /\ other' = NoCall
    /\ UNCHANGED <<DetectorFields, DetectorLocals>>

-----------------------------------------------------------------------------
(* FaceRecognitionSystem.  An embedding is a vector of one coordinate, kept *)
(* as an integer in tenths; the Euclidean distance of two such vectors is   *)
(* the absolute difference, and 1 - d is 10 - d in tenths.                  *)

DefaultTolerance == 6

UsernameInputs == {"alice", "bob"}

\* the embeddings that enrolled employees can have, and those of the faces
\* in the images
EnrolledEmbInputs == {0, 10}

FaceEmbInputs == {4, 5, 8, 18}

\* Employee.face_encoding, a Text column: NULL, the empty string, a text
\* that is no JSON, or json.dumps of an embedding (admin_panel.py line 143)
json_dumps(e) == [kind |-> "json", value |-> e]

StoredEncodingInputs ==
    { [kind |-> "none"], [kind |-> "empty"], [kind |-> "malformed"] }
        \cup { json_dumps(e) : e \in EnrolledEmbInputs }

\* line 52: `if employee.face_encoding`
Truthy(text) == text.kind \notin {"none", "empty"}

\* line 54: json.loads raises on a text that is no JSON
json_loads_raises(text) == text.kind # "json"

json_loads_rounded(text) == (text.value \div 5) * 5

json_loads(text) == text.value

\* the employees given to load_known_faces: Employee.username is unique
EmployeeInputs ==
    { es \in SeqsUpTo([username : UsernameInputs,
                       face_encoding : StoredEncodingInputs], MaxEmployees) :
        \A i, j \in 1..Len(es) : i # j => es[i].username # es[j].username }

\* the images given to recognize_face: image[k] is the embedding of the
\* k-th face that face_locations finds
ImageInputs == SeqsUpTo(FaceEmbInputs, MaxFaces)

\* face_recognition.face_locations: (top, right, bottom, left) of each face
face_locations(img) == [k \in 1..Len(img) |-> <<10 * k, 10 * k + 5, 10 * k + 5, 10 * k>>]

Abs(x) == IF x < 0 THEN -x ELSE x

\* face_recognition.face_distance: the distance to every known encoding
face_distance(encodings, face_encoding) ==
    [i \in 1..Len(encodings) |-> Abs(encodings[i] - face_encoding)]

compare_faces_strict(encodings, face_encoding, tol) ==
    [i \in 1..Len(encodings) |-> Abs(encodings[i] - face_encoding) < tol]

\* face_recognition.compare_faces: face_distance(...) <= tolerance
compare_faces(encodings, face_encoding, tol) ==
    [i \in 1..Len(encodings) |-> face_distance(encodings, face_encoding)[i] <= tol]

np_argmax(ds) ==
    CHOOSE i \in 1..Len(ds) :
        /\ \A j \in 1..Len(ds) : ds[i] >= ds[j]
        /\ \A j \in 1..(i - 1) : ds[j] < ds[i]

np_argmin_last(ds) ==
    CHOOSE i \in 1..Len(ds) :
        /\ \A j \in 1..Len(ds) : ds[i] <= ds[j]
        /\ \A j \in (i + 1)..Len(ds) : ds[j] > ds[i]

\* np.argmin: the first index of the least value (of a non-empty list)
np_argmin(ds) ==
    CHOOSE i \in 1..Len(ds) :
        /\ \A j \in 1..Len(ds) : ds[i] <= ds[j]
        /\ \A j \in 1..(i - 1) : ds[j] > ds[i]

NoResult == [ok |-> FALSE, reason |-> "NONE"]

Failure(reason) == [ok |-> FALSE, reason |-> reason]

\* lines 96-101: the match returned for face k of the image
MatchResult(img, k, best, dists, names) ==
    [ ok            |-> TRUE,
      username      |-> names[best],
      confidence    |-> 10 - dists[best],
      face_location |-> face_locations(img)[1],
      reason        |-> "Face recognized successfully" ]

-----------------------------------------------------------------------------
(* load_known_faces, one statement at a time *)

load_known_faces_call_merging(inputs) ==
    /\ lpc = "idle"
    /\ \E es \in inputs : employees' = es
    /\ old_encodings' = known_face_encodings
    /\ old_names' = known_face_names
    /\ li' = 1
    /\ lpc' = "reset_names"
    /\ UNCHANGED <<known_face_encodings, known_face_names, tolerance>>

\* line 48
load_known_faces_call(inputs) ==
    /\ lpc = "idle"
    /\ \E es \in inputs : employees' = es
    /\ old_encodings' = known_face_encodings
    /\ old_names' = known_face_names
    /\ known_face_encodings' = <<>>
    /\ li' = 1
    /\ lpc' = "reset_names"
    /\ UNCHANGED <<known_face_names, tolerance>>

\* line 49
load_known_faces_reset_names ==
    /\ lpc = "reset_names"
    /\ known_face_names' = <<>>
    /\ lpc' = "loop"
    /\ UNCHANGED <<known_face_encodings, tolerance, employees, li,
                   old_encodings, old_names>>

load_known_faces_skip_naming ==
    /\ lpc = "loop"
    /\ li <= Len(employees)
    /\ \/ ~Truthy(employees[li].face_encoding)
       \/ json_loads_raises(employees[li].face_encoding)
    /\ known_face_names' = Append(known_face_names, employees[li].username)
    /\ li' = li + 1
    /\ UNCHANGED <<known_face_encodings, tolerance, lpc, employees,
                   old_encodings, old_names>>

load_known_faces_skip_aborting ==
    /\ lpc = "loop"
    /\ li <= Len(employees)
    /\ \/ ~Truthy(employees[li].face_encoding)
       \/ json_loads_raises(employees[li].face_encoding)
    /\ li' = IF json_loads_raises(employees[li].face_encoding)
                 /\ Truthy(employees[li].face_encoding)
             THEN Len(employees) + 1
             ELSE li + 1
    /\ UNCHANGED <<regvars, lpc, employees, old_encodings, old_names>>

\* lines 52-54, 57-58: no stored encoding, or json.loads raises and the
\* except branch logs it
load_known_faces_skip ==
    /\ lpc = "loop"
    /\ li <= Len(employees)
    /\ \/ ~Truthy(employees[li].face_encoding)
       \/ json_loads_raises(employees[li].face_encoding)
    /\ li' = li + 1
    /\ UNCHANGED <<regvars, lpc, employees, old_encodings, old_names>>

\* lines 52-55
load_known_faces_append_encoding ==
    /\ lpc = "loop"
    /\ li <= Len(employees)
    /\ Truthy(employees[li].face_encoding)
    /\ ~json_loads_raises(employees[li].face_encoding)
    /\ known_face_encodings' =
          Append(known_face_encodings, json_loads(employees[li].face_encoding))
    /\ lpc' = "name"
    /\ UNCHANGED <<known_face_names, tolerance, employees, li,
                   old_encodings, old_names>>

\* line 56
load_known_faces_append_name ==
    /\ lpc = "name"
    /\ known_face_names' = Append(known_face_names, employees[li].username)
    /\ li' = li + 1
    /\ lpc' = "loop"
    /\ UNCHANGED <<known_face_encodings, tolerance, employees,
                   old_encodings, old_names>>

\* line 51: the loop is over
load_known_faces_return ==
    /\ lpc = "loop"
    /\ li > Len(employees)
    /\ lpc' = "idle"
    /\ UNCHANGED <<regvars, employees, li, old_encodings, old_names>>

-----------------------------------------------------------------------------
(* recognize_face, one read of the registry at a time *)

recognize_face_no_face_consulting ==
    /\ rpc = "idle"
    /\ image' = <<>>
    /\ matches' = [i \in 1..Len(known_face_encodings) |-> FALSE]
    /\ face_distances' = [i \in 1..Len(known_face_encodings) |-> 0]
    /\ result' = Failure("No face detected")
    /\ rpc' = "done"
    /\ UNCHANGED ri

recognize_face_no_face_as_unrecognized ==
    /\ rpc = "idle"
    /\ image' = <<>>
    /\ result' = Failure("Face not recognized")
    /\ rpc' = "done"
    /\ UNCHANGED <<ri, matches, face_distances>>

\* lines 72-74: no face is found
recognize_face_no_face ==
    /\ rpc = "idle"
    /\ image' = <<>>
    /\ result' = Failure("No face detected")
    /\ rpc' = "done"
    /\ UNCHANGED <<ri, matches, face_distances>>

\* lines 76-78: faces are found and face_encodings returns nothing
recognize_face_no_features(inputs) ==
    /\ rpc = "idle"
    /\ \E img \in inputs : Len(img) > 0 /\ image' = img
    /\ result' = Failure("Could not extract face features")
    /\ rpc' = "done"
    /\ UNCHANGED <<ri, matches, face_distances>>

\* lines 72-81: faces are found and encoded, the loop starts
recognize_face_call(inputs) ==
    /\ rpc = "idle"
    /\ \E img \in inputs : Len(img) > 0 /\ image' = img
    /\ ri' = 1
    /\ rpc' = "compare"
    /\ UNCHANGED <<matches, face_distances, result>>

\* lines 82-86: compare_faces reads known_face_encodings
recognize_face_compare ==
    /\ rpc = "compare"
    /\ ri <= Len(image)
    /\ matches' = compare_faces(known_face_encodings, image[ri], tolerance)
    /\ rpc' = "distance"
    /\ UNCHANGED <<image, ri, face_distances, result>>

\* lines 88-91: face_distance reads known_face_encodings
recognize_face_distance ==
    /\ rpc = "distance"
    /\ face_distances' = face_distance(known_face_encodings, image[ri])
    /\ rpc' = "decide"
    /\ UNCHANGED <<image, ri, matches, result>>

\* line 93 is false, or line 95 is false: on to the next face
recognize_face_next_face ==
    /\ rpc = "decide"
    /\ \/ ~(\E i \in 1..Len(matches) : matches[i])
       \/ /\ \E i \in 1..Len(matches) : matches[i]
          /\ face_distances # <<>>
          /\ np_argmin(face_distances) <= Len(matches)
          /\ ~matches[np_argmin(face_distances)]
    /\ ri' = ri + 1
    /\ rpc' = "compare"
    /\ UNCHANGED <<image, matches, face_distances, result>>

\* lines 93-101: a match; line 98 reads known_face_names
recognize_face_match ==
    /\ rpc = "decide"
    /\ \E i \in 1..Len(matches) : matches[i]
    /\ face_distances # <<>>
    /\ np_argmin(face_distances) <= Len(matches)
    /\ matches[np_argmin(face_distances)]
    /\ np_argmin(face_distances) <= Len(known_face_names)
    /\ result' = MatchResult(image, ri, np_argmin(face_distances),
                             face_distances, known_face_names)
    /\ rpc' = "done"
    /\ UNCHANGED <<image, ri, matches, face_distances>>

\* lines 94, 95, 98 raise (np.argmin of an empty list, an index out of
\* range): the except branch of lines 105-107 answers
recognize_face_index_raises ==
    /\ rpc = "decide"
    /\ \E i \in 1..Len(matches) : matches[i]
    /\ \/ face_distances = <<>>
       \/ /\ face_distances # <<>>
          /\ np_argmin(face_distances) > Len(matches)
       \/ /\ face_distances # <<>>
          /\ np_argmin(face_distances) <= Len(matches)
          /\ matches[np_argmin(face_distances)]
          /\ np_argmin(face_distances) > Len(known_face_names)
    /\ result' = Failure("Error processing face")
    /\ rpc' = "done"
    /\ UNCHANGED <<image, ri, matches, face_distances>>

\* line 103: no face of the image matched
recognize_face_not_recognized ==
    /\ rpc = "compare"
    /\ ri > Len(image)
    /\ result' = Failure("Face not recognized")
    /\ rpc' = "done"
    /\ UNCHANGED <<image, ri, matches, face_distances>>

recognize_face_raises_uncaught(inputs) ==
    /\ rpc = "idle"
    /\ \E img \in inputs : image' = img
    /\ rpc' = "raised"
    /\ UNCHANGED <<ri, matches, face_distances, result>>

\* a collaborator raises (image conversion, face_locations, face_encodings):
\* the except branch of lines 105-107 answers
recognize_face_raises(inputs) ==
    /\ rpc = "idle"
    /\ \E img \in inputs : image' = img
    /\ result' = Failure("Error processing face")
    /\ rpc' = "done"
    /\ UNCHANGED <<ri, matches, face_distances>>

\* the caller has used the result and turns to its next image
next_image ==
    /\ rpc = "done"
    /\ rpc' = "idle"
    /\ image' = <<>>
    /\ ri' = 1
    /\ matches' = <<>>
    /\ face_distances' = <<>>
    /\ result' = NoResult

-----------------------------------------------------------------------------
(* encode_face_from_image, and the enrollment form of admin_panel.py *)

\* how face_recognition behaves in one call: `features` tells whether
\* face_encodings returns an embedding for the face it is given, `fault`
\* whether a collaborator (np.array, cv2.cvtColor, face_locations,
\* face_encodings) raises
CollaboratorInputs == [features : BOOLEAN, fault : BOOLEAN]

NoCollaborators == [features |-> TRUE, fault |-> FALSE]

encode_face_from_image_first_of_many(img, features, fault) ==
    IF fault THEN Failure("Error processing face")
    ELSE IF Len(img) = 0 THEN Failure("No face detected in the image")
    ELSE IF ~features THEN Failure("Could not extract face features")
    ELSE [ ok       |-> TRUE,
           encoding |-> img[1],
           reason   |-> "Face encoded successfully" ]

\* lines 17-44: the pair that encode_face_from_image returns for an image
\* with the faces img; ok is FALSE where the first component is None
encode_face_from_image(img, features, fault) ==
    IF fault THEN Failure("Error processing face")
    ELSE IF Len(img) = 0 THEN Failure("No face detected in the image")
    ELSE IF Len(img) > 1
        THEN Failure("Multiple faces detected. Please ensure only one face is visible")
    ELSE IF ~features THEN Failure("Could not extract face features")
    ELSE [ ok       |-> TRUE,
           encoding |-> img[1],
           reason   |-> "Face encoded successfully" ]

\* a call of encode_face_from_image
encode_face_from_image_call(inputs) ==
    /\ epc = "idle"
    /\ \E img \in inputs, c \in CollaboratorInputs :
          /\ upload' = img
          /\ collaborators' = c
          /\ encoded' = encode_face_from_image(img, c.features, c.fault)
    /\ epc' = "done"
    /\ UNCHANGED <<db, annotations>>

\* the caller has used the pair and turns to its next upload
next_upload ==
    /\ epc = "done"
    /\ epc' = "idle"
    /\ upload' = <<>>
    /\ collaborators' = NoCollaborators
    /\ encoded' = NoResult
    /\ UNCHANGED <<db, annotations>>

\* a column that was given no value
None == "NONE"

\* what can be typed into the e-mail field of the enrollment form
EmailInputs == {"alice@x.com", "bob@x.com"}

\* the username and e-mail fields of the form can also be left empty
FormUsernameInputs == UsernameInputs \cup {""}

FormEmailInputs == EmailInputs \cup {""}

\* database.py lines 11-28: a row of `employees`; is_active defaults to
\* True
Employee(username, email, face_encoding) ==
    [ username      |-> username,
      email         |-> email,
      face_encoding |-> face_encoding,
      is_active     |-> TRUE ]

\* database.py lines 100-112, DatabaseManager.add_employee: username and
\* email are unique and not nullable (lines 15 and 18); a commit that breaks
\* one of these constraints raises, is rolled back and leaves the table as
\* it was
db_add_employee(table, row) ==
    IF \/ row.username = None
       \/ row.email = None
       \/ \E i \in 1..Len(table) : table[i].username = row.username
       \/ \E i \in 1..Len(table) : table[i].email = row.email
        THEN table
        ELSE Append(table, row)

\* admin_panel.py line 130: `not all([..., username, email, ...])`
required_fields_missing(username, email) == username = "" \/ email = ""

add_employee_auto_refresh(usernames, emails, images) ==
    /\ epc = "idle"
    /\ Len(db) < MaxEmployees
    /\ \E u \in usernames, email \in emails, img \in images,
          c \in CollaboratorInputs :
          LET r == encode_face_from_image(img, c.features, c.fault)
              face_encoding == IF r.ok THEN json_dumps(r.encoding)
                                       ELSE [kind |-> "none"]
          IN  IF required_fields_missing(u, email)
                THEN UNCHANGED <<encvars, db, regvars>>
                ELSE /\ upload' = img
                     /\ collaborators' = c
                     /\ encoded' = r
                     /\ epc' = "done"
                     /\ db' = db_add_employee(db, Employee(u, email, face_encoding))
                     /\ known_face_encodings' =
                           IF r.ok THEN Append(known_face_encodings, r.encoding)
                                   ELSE known_face_encodings
                     /\ known_face_names' =
                           IF r.ok THEN Append(known_face_names, u)
                                   ELSE known_face_names
                     /\ UNCHANGED tolerance
    /\ UNCHANGED <<loadvars, recvars, annotations>>

\* admin_panel.py lines 125-179, the form submitted with a photo: a form
\* with an empty required field is refused before anything is done;
\* otherwise the photo is encoded, the encoding is stored as JSON when
\* there is one, and the row is given to DatabaseManager.add_employee,
\* which adds it or, on a username or an e-mail that the table has already,
\* leaves the table as it was
add_employee(usernames, emails, images) ==
    /\ epc = "idle"
    /\ Len(db) < MaxEmployees
    /\ \E u \in usernames, email \in emails, img \in images,
          c \in CollaboratorInputs :
          LET r == encode_face_from_image(img, c.features, c.fault)
              face_encoding == IF r.ok THEN json_dumps(r.encoding)
                                       ELSE [kind |-> "none"]
          IN  IF required_fields_missing(u, email)
                THEN UNCHANGED <<encvars, db>>
                ELSE /\ upload' = img
                     /\ collaborators' = c
                     /\ encoded' = r
                     /\ epc' = "done"
                     /\ db' = db_add_employee(db, Employee(u, email, face_encoding))
    /\ UNCHANGED <<facevars, annotations>>

\* the same form submitted without a photo: face_encoding stays None
add_employee_without_photo(usernames, emails) ==
    /\ epc = "idle"
    /\ Len(db) < MaxEmployees
    /\ \E u \in usernames, email \in emails :
          IF required_fields_missing(u, email)
            THEN UNCHANGED db
            ELSE db' = db_add_employee(db, Employee(u, email, [kind |-> "none"]))
    /\ UNCHANGED <<facevars, encvars, annotations>>

\* lines 109-121: draw_face_rectangle draws the box and the label of a
\* match on the image it is given
draw_face_rectangle ==
    /\ rpc = "done"
    /\ result.ok
    /\ annotations = <<>>
    /\ annotations' = << [ face_location |-> result.face_location,
                           name          |-> result.username,
                           confidence    |-> result.confidence ] >>
    /\ UNCHANGED <<facevars, encvars, db>>

\* the caller has shown the image and turns to its next image
discard_image ==
    /\ next_image
    /\ annotations' = <<>>
    /\ UNCHANGED <<regvars, loadvars, encvars, db>>

-----------------------------------------------------------------------------
(* The admin panel of admin_panel.py: show_admin_panel, show_admin_login *)

\* config.py lines 29-30, the values used when the environment sets none
ADMIN_USERNAME == "admin"

ADMIN_PASSWORD == "admin123"

\* what can be typed into the login form
LoginUsernameInputs == {"admin", "alice", ""}

LoginPasswordInputs == {"admin123", "admin", ""}

\* lines 24-28: the admin functions of the selectbox
AdminFunctions ==
    {"Employee Management", "System Analytics", "Violation Reports",
     "System Settings"}

\* a session in which nothing has been stored
NoSession == [key \in {} |-> TRUE]

NoAttempt == [username |-> "NONE", password |-> "NONE"]

\* line 17: 'admin_logged_in' in st.session_state and
\* st.session_state.admin_logged_in
LoggedIn ==
    "admin_logged_in" \in DOMAIN session_state /\ session_state.admin_logged_in

authenticate_admin_either(username, password) ==
    username = ADMIN_USERNAME \/ password = ADMIN_PASSWORD

\* lines 68-71
authenticate_admin(username, password) ==
    username = ADMIN_USERNAME /\ password = ADMIN_PASSWORD

\* lines 15-38: a run of the script without the login button pressed; a
\* session that is not logged in gets the login form (lines 17-19), the
\* others the admin function of the selectbox
show_admin_panel(functions) ==
    /\ \E f \in functions : shown' = IF LoggedIn THEN f ELSE "login"
    /\ UNCHANGED <<session_state, login_form>>

\* lines 17-19 and 54-64: a run of the script in a session that is not
\* logged in, with the login button pressed.  With the configured
\* credentials line 59 stores admin_logged_in.  Line 60 then assigns
\* st.session_state.admin_username, the key of the text_input that line 54
\* has created in this run, which Streamlit refuses with an exception:
\* nothing is stored under admin_username, and lines 61-62 (the success
\* message and st.rerun()) are not reached.  The run ends with the login
\* page on the screen, and the admin functions are drawn by the next run,
\* a step of show_admin_panel.  With other credentials the login form
\* stays, with an error.
show_admin_login(usernames, passwords) ==
    /\ shown = "login"
    /\ ~LoggedIn
    /\ \E username \in usernames, password \in passwords :
          /\ login_form' = [username |-> username, password |-> password]
          /\ session_state' =
                IF authenticate_admin(username, password)
                    THEN [admin_logged_in |-> TRUE]
                    ELSE session_state
    /\ shown' = "login"

\* a new browser session
InitPanel ==
    /\ session_state = NoSession
    /\ shown = "none"
    /\ login_form = NoAttempt

-----------------------------------------------------------------------------

InitDetector ==
    /\ class_names = PPE_CLASSES
    /\ violation_classes = VIOLATION_CLASSES
    /\ dpc = "idle"
    /\ boxes = <<>>
    /\ di = 1
    /\ detections = <<>>
    /\ violations = <<>>
    /\ raised = FALSE
    /\ verdict = NoVerdict
    /\ other = NoCall

\* lines 12-15: __init__
InitFace ==
    /\ known_face_encodings = <<>>
    /\ known_face_names = <<>>
    /\ tolerance = DefaultTolerance
    /\ lpc = "idle"
    /\ employees = <<>>
    /\ li = 1
    /\ old_encodings = <<>>
    /\ old_names = <<>>
    /\ rpc = "idle"
    /\ image = <<>>
    /\ ri = 1
    /\ matches = <<>>
    /\ face_distances = <<>>
    /\ result = NoResult

\* the admin panel before any upload
InitEncode ==
    /\ epc = "idle"
    /\ upload = <<>>
    /\ collaborators = NoCollaborators
    /\ encoded = NoResult
    /\ annotations = <<>>

Init == InitDetector /\ InitFace /\ InitEncode /\ InitPanel /\ db = <<>>

\* a step of detect_ppe
DetStep(A) == A /\ UNCHANGED <<other, facevars, adminvars>>

\* the detector alone
DetectorNext ==
    \/ DetStep(detect_ppe_call(DetectInputs))
    \/ DetStep(detect_ppe_inference_raises)
    \/ DetStep(detect_ppe_box)
    \/ DetStep(detect_ppe_return)
    \/ DetStep(detect_ppe_step_raises)
    \/ DetStep(next_frame)

\* a step of load_known_faces, and a step of recognize_face
LoadStep(A) == A /\ UNCHANGED <<recvars, detvars, adminvars>>

RecStep(A) == A /\ UNCHANGED <<regvars, loadvars, detvars, adminvars>>

\* the face system used from one context at a time: an operation starts
\* only when the other is not running.  Then `matches`, `face_distances`
\* and known_face_names are of one registry and no index of lines 94-98 is
\* out of range, so that recognize_face_index_raises has no step here.
SeqLoad(A) == rpc = "idle" /\ LoadStep(A)

SeqRec(A) == lpc = "idle" /\ RecStep(A)

FaceSeqNext ==
    \/ SeqLoad(load_known_faces_call(EmployeeInputs))
    \/ SeqLoad(load_known_faces_reset_names)
    \/ SeqLoad(load_known_faces_skip)
    \/ SeqLoad(load_known_faces_append_encoding)
    \/ SeqLoad(load_known_faces_append_name)
    \/ SeqLoad(load_known_faces_return)
    \/ SeqRec(recognize_face_no_face)
    \/ SeqRec(recognize_face_no_features(ImageInputs))
    \/ SeqRec(recognize_face_call(ImageInputs))
    \/ SeqRec(recognize_face_compare)
    \/ SeqRec(recognize_face_distance)
    \/ SeqRec(recognize_face_next_face)
    \/ SeqRec(recognize_face_match)
    \/ SeqRec(recognize_face_not_recognized)
    \/ SeqRec(recognize_face_raises(ImageInputs))
    \/ SeqRec(next_image)

\* recognize_face and load_known_faces on two threads, their steps
\* interleaved; the employees all carry an encoding and the faces are
\* drawn from two embeddings, which keeps the interleavings enumerable
ConcEmployeeInputs ==
    { es \in EmployeeInputs :
        \A i \in 1..Len(es) : es[i].face_encoding.kind = "json" }

ConcImageInputs == SeqsUpTo({4, 8}, MaxFaces)

FaceConcNext ==
    \/ LoadStep(load_known_faces_call(ConcEmployeeInputs))
    \/ LoadStep(load_known_faces_reset_names)
    \/ LoadStep(load_known_faces_append_encoding)
    \/ LoadStep(load_known_faces_append_name)
    \/ LoadStep(load_known_faces_return)
    \/ RecStep(recognize_face_no_face)
    \/ RecStep(recognize_face_no_features(ConcImageInputs))
    \/ RecStep(recognize_face_call(ConcImageInputs))
    \/ RecStep(recognize_face_compare)
    \/ RecStep(recognize_face_distance)
    \/ RecStep(recognize_face_next_face)
    \/ RecStep(recognize_face_match)
    \/ RecStep(recognize_face_index_raises)
    \/ RecStep(recognize_face_not_recognized)
    \/ RecStep(recognize_face_raises(ConcImageInputs))
    \/ RecStep(next_image)

\* the admin panel and the face system, one operation at a time.  The
\* photos and the images show faces of two people, whose embeddings are
\* further apart than the tolerance.
EnrollImageInputs == SeqsUpTo({4, 18}, MaxFaces)

\* the table `employees` as the program finds it when it starts: empty, or
\* holding an employee who was enrolled with a photo and whose is_active has
\* been set to False since
StoredTables ==
    { <<>>,
      << [Employee("alice", "alice@x.com", json_dumps(4))
            EXCEPT !.is_active = FALSE] >> }

InitEnroll ==
    InitDetector /\ InitFace /\ InitEncode /\ InitPanel /\ db \in StoredTables

EncStep(A) ==
    lpc = "idle" /\ rpc = "idle" /\ A /\ UNCHANGED <<detvars, facevars, panelvars>>

FormStep(A) ==
    lpc = "idle" /\ rpc = "idle" /\ A /\ UNCHANGED <<detvars, panelvars>>

EnrollLoad(A) == epc = "idle" /\ SeqLoad(A)

EnrollRec(A) == epc = "idle" /\ SeqRec(A)

ShowStep(A) ==
    epc = "idle" /\ lpc = "idle" /\ A /\ UNCHANGED <<detvars, panelvars>>

EnrollNext ==
    \/ EncStep(encode_face_from_image_call(EnrollImageInputs))
    \/ EncStep(next_upload)
    \/ FormStep(add_employee(FormUsernameInputs, FormEmailInputs, EnrollImageInputs))
    \/ FormStep(add_employee_without_photo(FormUsernameInputs, FormEmailInputs))
    \/ EnrollLoad(load_known_faces_call({db}))
    \/ EnrollLoad(load_known_faces_reset_names)
    \/ EnrollLoad(load_known_faces_skip)
    \/ EnrollLoad(load_known_faces_append_encoding)
    \/ EnrollLoad(load_known_faces_append_name)
    \/ EnrollLoad(load_known_faces_return)
    \/ EnrollRec(recognize_face_no_face)
    \/ EnrollRec(recognize_face_no_features(EnrollImageInputs))
    \/ EnrollRec(recognize_face_call(EnrollImageInputs))
    \/ EnrollRec(recognize_face_compare)
    \/ EnrollRec(recognize_face_distance)
    \/ EnrollRec(recognize_face_next_face)
    \/ EnrollRec(recognize_face_match)
    \/ EnrollRec(recognize_face_not_recognized)
    \/ EnrollRec(recognize_face_raises(EnrollImageInputs))
    \/ ShowStep(draw_face_rectangle)
    \/ ShowStep(discard_image)

DetectorIdle == dpc = "idle"

FaceIdle == lpc = "idle" /\ rpc = "idle"

\* the whole program, one operation at a time; the frames hold a helmet,
\* a missing helmet or an unknown object
FrameInputs ==
    SeqsUpTo({ b \in BoxInputs : /\ b.cls \in {2, 7, 12}
                                 /\ b.conf = 90
                                 /\ b.xyxy = <<0, 1, 2, 4>> }, MaxBoxes)

\* two detect_ppe calls on one detector, their steps interleaved
OtherStep(A) == A /\ UNCHANGED <<facevars, adminvars>>

DetectorConcNext ==
    \/ DetStep(detect_ppe_call(FrameInputs))
    \/ DetStep(detect_ppe_inference_raises)
    \/ DetStep(detect_ppe_box)
    \/ DetStep(detect_ppe_return)
    \/ DetStep(detect_ppe_step_raises)
    \/ DetStep(next_frame)
    \/ OtherStep(detect_ppe_call_of_other(FrameInputs))
    \/ OtherStep(detect_ppe_inference_raises_of_other)
    \/ OtherStep(detect_ppe_box_of_other)
    \/ OtherStep(detect_ppe_return_of_other)
    \/ OtherStep(detect_ppe_step_raises_of_other)
    \/ OtherStep(next_frame_of_other)

\* the admin panel in one browser session: the login form, the selectbox
\* of the admin functions, and the enrollment form of Employee Management
PanelStep(A) ==
    A /\ UNCHANGED <<detvars, facevars, encvars, db, annotations>>

EmployeeManagement(A) ==
    LoggedIn /\ shown = "Employee Management" /\ A

PanelNext ==
    \/ PanelStep(show_admin_panel(AdminFunctions))
    \/ PanelStep(show_admin_login(LoginUsernameInputs, LoginPasswordInputs))
    \/ EmployeeManagement(FormStep(add_employee(FormUsernameInputs, FormEmailInputs, EnrollImageInputs)))
    \/ EmployeeManagement(FormStep(add_employee_without_photo(FormUsernameInputs, FormEmailInputs)))
    \/ EmployeeManagement(EncStep(next_upload))

Frame(A) == FaceIdle /\ epc = "idle" /\ DetStep(A)

Face(A) == DetectorIdle /\ A

Encode(A) == DetectorIdle /\ EncStep(A)

FaceOp(A) == epc = "idle" /\ Face(A)

Next ==
    \/ Frame(detect_ppe_call(FrameInputs))
    \/ Frame(detect_ppe_inference_raises)
    \/ Frame(detect_ppe_box)
    \/ Frame(detect_ppe_return)
    \/ Frame(detect_ppe_step_raises)
    \/ Frame(next_frame)
    \/ FaceOp(SeqLoad(load_known_faces_call(EmployeeInputs)))
    \/ FaceOp(SeqLoad(load_known_faces_reset_names))
    \/ FaceOp(SeqLoad(load_known_faces_skip))
    \/ FaceOp(SeqLoad(load_known_faces_append_encoding))
    \/ FaceOp(SeqLoad(load_known_faces_append_name))
    \/ FaceOp(SeqLoad(load_known_faces_return))
    \/ FaceOp(SeqRec(recognize_face_no_face))
    \/ FaceOp(SeqRec(recognize_face_no_features(ImageInputs)))
    \/ FaceOp(SeqRec(recognize_face_call(ImageInputs)))
    \/ FaceOp(SeqRec(recognize_face_compare))
    \/ FaceOp(SeqRec(recognize_face_distance))
    \/ FaceOp(SeqRec(recognize_face_next_face))
    \/ FaceOp(SeqRec(recognize_face_match))
    \/ FaceOp(SeqRec(recognize_face_not_recognized))
    \/ FaceOp(SeqRec(recognize_face_raises(ImageInputs)))
    \/ FaceOp(SeqRec(next_image))
    \/ Encode(encode_face_from_image_call(ImageInputs))
    \/ Encode(next_upload)

SpecDetector == Init /\ [][DetectorNext]_vars

SpecFaceSeq == Init /\ [][FaceSeqNext]_vars

SpecFaceConc == Init /\ [][FaceConcNext]_vars

SpecEnroll == InitEnroll /\ [][EnrollNext]_vars

SpecDetectorConc == Init /\ [][DetectorConcNext]_vars

SpecPanel == Init /\ [][PanelNext]_vars

Spec == Init /\ [][Next]_vars

-----------------------------------------------------------------------------
(* The claims about detect_ppe, under SpecDetector *)

\* a detect_ppe call has returned / has returned without any step raising
Returned == dpc = "done"

ReturnedClean == dpc = "done" /\ ~raised

\* the boxes of the running call whose class is a violation class of config.py
ViolatingBoxes ==
    { i \in 1..Len(boxes) :
        boxes[i].cls < Len(PPE_CLASSES)
        /\ InSeq(PPE_CLASSES[boxes[i].cls + 1], VIOLATION_CLASSES) }

\* C1 as stated: every verdict returned by detect_ppe, on any path, has
\* compliance_status = 'COMPLIANT' if and only if violation_count = 0.
C1_CompliantIffNoViolationOnAnyPath ==
    Returned =>
        (verdict.compliance_status = "COMPLIANT" <=> verdict.violation_count = 0)

\* C1 amended: the verdict of a call in which no step raised has
\* compliance_status = 'COMPLIANT' if and only if violation_count = 0; the
\* verdict of a call in which a step raised has compliance_status = 'ERROR'
\* with violation_count = 0.
C1_CompliantIffNoViolationUnlessRaised ==
    /\ ReturnedClean =>
          /\ verdict.compliance_status = "COMPLIANT" <=> verdict.violation_count = 0
          /\ verdict.violation_count = Cardinality(ViolatingBoxes)
    /\ (Returned /\ raised) =>
          /\ verdict.compliance_status = "ERROR"
          /\ verdict.violation_count = 0

C1_Witness ==
    /\ ReturnedClean
    /\ Len(boxes) = MaxBoxes
    /\ ViolatingBoxes = {}
    /\ verdict.compliance_status = "COMPLIANT"

\* C2: a list with total_detections > 0, classified without a fault, is
\* VIOLATION iff violation_count >= 0.5 * total_detections and PARTIAL iff
\* 0 < violation_count < 0.5 * total_detections; one helmet and one no_mask
\* give VIOLATION, and a single no_helmet gives VIOLATION.
C2_ViolationIffAtLeastHalf ==
    (ReturnedClean /\ Len(boxes) > 0) =>
        LET v == Cardinality(ViolatingBoxes)
            n == Len(boxes)
        IN  /\ verdict.total_detections = n
            /\ verdict.violation_count = v
            /\ verdict.compliance_status = "VIOLATION" <=> 2 * v >= n
            /\ verdict.compliance_status = "PARTIAL" <=> (0 < v /\ 2 * v < n)
            /\ (n = 2 /\ boxes[1].cls = 2 /\ boxes[2].cls = 8)
                  => verdict.compliance_status = "VIOLATION"
            /\ (n = 1 /\ boxes[1].cls = 7)
                  => verdict.compliance_status = "VIOLATION"

\* one helmet and one no_mask: exactly half of the detections are violations
C2_Witness ==
    /\ ReturnedClean
    /\ Len(boxes) = 2
    /\ boxes[1].cls = 2
    /\ boxes[2].cls = 8
    /\ verdict.violation_count = 1
    /\ verdict.compliance_status = "VIOLATION"

\* C3: if the inference or any later step of detect_ppe raises, detect_ppe
\* returns exactly compliance_status = 'ERROR', total_detections = 0,
\* violation_count = 0, detections = [], violations = [] and
\* average_confidence = 0.0, also when boxes had been converted already.
C3_FaultVerdictIsExact ==
    (Returned /\ raised) =>
        verdict = [ detections         |-> <<>>,
                    violations         |-> <<>>,
                    total_detections   |-> 0,
                    violation_count    |-> 0,
                    compliance_status  |-> "ERROR",
                    average_confidence |-> [num |-> 0, den |-> 1] ]

\* the step raised after two boxes, one of them a violation, were converted
C3_Witness ==
    /\ Returned
    /\ raised
    /\ di = 3
    /\ 1 \in ViolatingBoxes
    /\ verdict.compliance_status = "ERROR"
    /\ verdict.detections = <<>>

\* the severity table of the specification
SeverityTable(class) ==
    IF class = "no_helmet" THEN "CRITICAL"
    ELSE IF class \in {"no_mask", "no-suit"} THEN "HIGH"
    ELSE "MEDIUM"

\* strings to look up: the classes of config.py and strings of no class
SeverityLookups ==
    { PPE_CLASSES[i] : i \in 1..Len(PPE_CLASSES) }
        \cup { "object_12", "", "NO_HELMET", "no_suit", "no helmet" }

\* C4: get_violation_severity is total: no_helmet -> CRITICAL, no_mask ->
\* HIGH, no-suit -> HIGH, no_goggles, no_glove, no_shoes -> MEDIUM, every
\* other string -> MEDIUM; and every violation record that detect_ppe
\* produces carries the severity the table gives for its violation_type.
C4_SeverityFollowsTable ==
    /\ get_violation_severity("no_helmet") = "CRITICAL"
    /\ get_violation_severity("no_mask") = "HIGH"
    /\ get_violation_severity("no-suit") = "HIGH"
    /\ get_violation_severity("no_goggles") = "MEDIUM"
    /\ get_violation_severity("no_glove") = "MEDIUM"
    /\ get_violation_severity("no_shoes") = "MEDIUM"
    /\ \A c \in SeverityLookups :
          get_violation_severity(c) \in {"LOW", "MEDIUM", "HIGH", "CRITICAL"}
    /\ \A c \in SeverityLookups \ {"no_helmet", "no_mask", "no-suit"} :
          get_violation_severity(c) = "MEDIUM"
    /\ \A i \in 1..Len(violations) :
          violations[i].severity = SeverityTable(violations[i].violation_type)
    /\ ReturnedClean =>
          /\ Len(verdict.violations) = Cardinality(ViolatingBoxes)
          /\ \A i \in 1..Len(verdict.violations) :
                verdict.violations[i].severity =
                    SeverityTable(verdict.violations[i].violation_type)

\* a verdict with a CRITICAL, a HIGH and a MEDIUM violation
C4_Witness ==
    /\ ReturnedClean
    /\ Len(verdict.violations) = 3
    /\ verdict.violations[1].violation_type = "no_helmet"
    /\ verdict.violations[1].severity = "CRITICAL"
    /\ verdict.violations[2].violation_type = "no-suit"
    /\ verdict.violations[2].severity = "HIGH"
    /\ verdict.violations[3].violation_type = "no_goggles"
    /\ verdict.violations[3].severity = "MEDIUM"

\* C5: when the model returns no box, detect_ppe returns total_detections
\* = 0, violation_count = 0, compliance_status = 'COMPLIANT' and
\* average_confidence exactly 0.0 (no division by zero, no fault verdict).
C5_EmptyListIsCompliant ==
    (ReturnedClean /\ boxes = <<>>) =>
        /\ verdict.total_detections = 0
        /\ verdict.violation_count = 0
        /\ verdict.compliance_status = "COMPLIANT"
        /\ verdict.average_confidence = [num |-> 0, den |-> 1]
        /\ verdict.detections = <<>>
        /\ verdict.violations = <<>>

C5_Witness ==
    /\ ReturnedClean
    /\ boxes = <<>>
    /\ verdict.compliance_status = "COMPLIANT"
    /\ verdict.total_detections = 0

-----------------------------------------------------------------------------
(* The claims about the face matcher used from one context at a time,      *)
(* under SpecFaceSeq                                                       *)

\* a recognize_face call has returned, and no collaborator failed in it
Recognized == rpc = "done"

RecognizedClean ==
    /\ rpc = "done"
    /\ result.reason \notin {"Error processing face",
                             "Could not extract face features"}

\* the distance from face k of the image to entry i of the registry
Dist(i, k) == Abs(known_face_encodings[i] - image[k])

Registry == 1..Len(known_face_encodings)

\* the faces of the image that have an enrolled embedding within tolerance
Candidates == { k \in 1..Len(image) : \E i \in Registry : Dist(i, k) <= tolerance }

FirstCandidate == CHOOSE k \in Candidates : \A m \in Candidates : k <= m

\* C6: a match returned by recognize_face names a registry entry whose
\* distance d to the matched face is <= tolerance and least over the whole
\* registry, with confidence 1 - d >= 1 - tolerance; with registry {alice}
\* a face at distance 0.4 gives alice with confidence 0.6, and a face at
\* distance 0.8 is not recognized.
C6_MatchIsNearestWithinTolerance ==
    /\ (Recognized /\ result.ok) =>
          /\ \E i \in Registry :
                /\ i <= Len(known_face_names)
                /\ known_face_names[i] = result.username
                /\ Dist(i, ri) <= tolerance
                /\ \A j \in Registry : Dist(i, ri) <= Dist(j, ri)
                /\ result.confidence = 10 - Dist(i, ri)
          /\ result.confidence >= 10 - tolerance
    /\ (RecognizedClean /\ known_face_names = <<"alice">> /\ Len(image) = 1) =>
          /\ Dist(1, 1) = 4 =>
                result.ok /\ result.username = "alice" /\ result.confidence = 6
          /\ Dist(1, 1) = 8 =>
                ~result.ok /\ result.reason = "Face not recognized"

\* two entries within tolerance of the face: the nearer one, alice, is named
C6_Witness ==
    /\ Recognized
    /\ result.ok
    /\ known_face_names = <<"bob", "alice">>
    /\ known_face_encodings = <<10, 0>>
    /\ image = <<4>>
    /\ result.username = "alice"
    /\ result.confidence = 6

\* C7: for an image with at least one face, recognize_face answers for the
\* first face, in detection order, that has an enrolled embedding within
\* tolerance, and answers not-recognized iff no face has one; no such face
\* is skipped.  (A call in which a collaborator failed answers with that
\* failure and is not a case of this claim.)
C7_FirstMatchingFaceWins ==
    /\ (RecognizedClean /\ Len(image) >= 1) =>
          /\ result.reason = "Face not recognized" <=> Candidates = {}
          /\ Candidates # {} =>
                /\ result.ok
                /\ ri = FirstCandidate
                /\ \E i \in Registry :
                      /\ known_face_names[i] = result.username
                      /\ \A j \in Registry : Dist(i, FirstCandidate) <= Dist(j, FirstCandidate)
                      /\ result.confidence = 10 - Dist(i, FirstCandidate)
    /\ rpc = "decide" =>
          /\ matches = compare_faces(known_face_encodings, image[ri], tolerance)
          /\ face_distances = face_distance(known_face_encodings, image[ri])
          /\ Len(known_face_names) = Len(known_face_encodings)

\* the first face has no enrolled embedding within tolerance, the second has
C7_Witness ==
    /\ RecognizedClean
    /\ known_face_names = <<"alice", "bob">>
    /\ known_face_encodings = <<0, 10>>
    /\ image = <<18, 8>>
    /\ result.ok
    /\ ri = 2
    /\ result.username = "bob"
    /\ result.confidence = 8

\* C8 as stated: the face_location of a returned match is the location of
\* the face whose embedding produced the match, also when the first face
\* has no match and a later face has.
C8_LocationIsOfMatchedFace ==
    (Recognized /\ result.ok) =>
        result.face_location = face_locations(image)[ri]

\* the employees of a list that carry a usable stored embedding
Usable(es) == SelectSeq(es, LAMBDA e : e.face_encoding.kind = "json")

UsableNames(es) == [i \in 1..Len(Usable(es)) |-> Usable(es)[i].username]

UsableEncodings(es) ==
    [i \in 1..Len(Usable(es)) |-> Usable(es)[i].face_encoding.value]

NamesOf(names) == { names[i] : i \in 1..Len(names) }

\* C9: after load_known_faces(E) the registry holds exactly the employees
\* of E with a usable stored embedding, whatever it held before, and a
\* later recognize_face never returns an identity of the prior registry
\* only.
C9_ReloadReplacesRegistry ==
    /\ lpc = "idle" =>
          /\ known_face_names = UsableNames(employees)
          /\ known_face_encodings = UsableEncodings(employees)
    /\ (Recognized /\ result.ok) =>
          result.username \in NamesOf(UsableNames(employees))

\* bob was enrolled at 1.0 in the prior registry and is not in the new one:
\* a face at 0.8 is not recognized
C9_Witness ==
    /\ lpc = "idle"
    /\ old_names = <<"alice", "bob">>
    /\ old_encodings = <<0, 10>>
    /\ known_face_names = <<"alice">>
    /\ known_face_encodings = <<0>>
    /\ RecognizedClean
    /\ image = <<8>>
    /\ result.reason = "Face not recognized"

-----------------------------------------------------------------------------
(* The claims about recognize_face running while load_known_faces runs,    *)
(* under SpecFaceConc                                                      *)

\* the registry is whole: no reload is running, or it is still the registry
\* the running reload found, or already the one it is building
RegistryWhole ==
    \/ lpc = "idle"
    \/ /\ known_face_encodings = old_encodings
       /\ known_face_names = old_names
    \/ /\ known_face_encodings = UsableEncodings(employees)
       /\ known_face_names = UsableNames(employees)

\* the steps of recognize_face that read the registry
ReadsRegistry ==
    \/ recognize_face_compare
    \/ recognize_face_distance
    \/ recognize_face_match
    \/ recognize_face_index_raises

\* C10 as stated: a recognize_face that runs while load_known_faces runs
\* reads the whole old registry or the whole new one at each of its reads,
\* never an empty or partly filled registry.
C10_ReadsSeeWholeRegistry ==
    [][ReadsRegistry => RegistryWhole]_vars

-----------------------------------------------------------------------------
(* The claims about encode_face_from_image, under SpecEnroll *)

Encoded == epc = "done"

\* an encode_face_from_image call has returned and no collaborator raised
EncodedClean == epc = "done" /\ ~collaborators.fault

\* C11: encode_face_from_image returns exactly one outcome, which the face
\* count determines: no face -> the no-face failure; two or more faces ->
\* the multiple-faces failure, whether or not an embedding could have been
\* computed; one face without an embedding -> the feature-extraction
\* failure; one face with an embedding -> success with that embedding.
C11_EncodeOutcomeByFaceCount ==
    EncodedClean =>
        /\ Len(upload) = 0 =>
              encoded = Failure("No face detected in the image")
        /\ Len(upload) >= 2 =>
              encoded = Failure("Multiple faces detected. Please ensure only one face is visible")
        /\ (Len(upload) = 1 /\ ~collaborators.features) =>
              encoded = Failure("Could not extract face features")
        /\ (Len(upload) = 1 /\ collaborators.features) =>
              /\ encoded.ok
              /\ encoded.encoding = upload[1]
              /\ encoded.reason = "Face encoded successfully"

\* a photo of two people, both of whose embeddings could have been computed
C11_Witness ==
    /\ EncodedClean
    /\ upload = <<18, 4>>
    /\ collaborators.features
    /\ ~encoded.ok
    /\ encoded.reason = "Multiple faces detected. Please ensure only one face is visible"

-----------------------------------------------------------------------------
(* More claims about recognize_face, under SpecFaceSeq *)

EmptyRegistry ==
    lpc = "idle" /\ known_face_encodings = <<>> /\ known_face_names = <<>>

\* C12 as stated: for every image, recognize_face against an empty registry
\* fails with the not-recognized reason.
C12_EmptyRegistryNotRecognizedForEveryImage ==
    (RecognizedClean /\ EmptyRegistry) =>
        result = Failure("Face not recognized")

\* C12 amended: against an empty registry recognize_face never returns a
\* match and raises nothing; it fails with the not-recognized reason for
\* every image in which a face is found and encoded, and with the no-face
\* reason for an image in which no face is found.
C12_EmptyRegistryNeverMatches ==
    (Recognized /\ EmptyRegistry) =>
        /\ ~result.ok
        /\ result.reason \in {"Face not recognized", "No face detected",
                              "Could not extract face features",
                              "Error processing face"}
        /\ (RecognizedClean /\ Len(image) > 0) =>
              result = Failure("Face not recognized")
        /\ (RecognizedClean /\ Len(image) = 0) =>
              result = Failure("No face detected")

\* two faces were compared with the empty registry
C12_Witness ==
    /\ RecognizedClean
    /\ EmptyRegistry
    /\ Len(image) = 2
    /\ ri = 3
    /\ matches = <<>>
    /\ result.reason = "Face not recognized"

-----------------------------------------------------------------------------
(* The claim about faults, under Spec *)

VerdictFields ==
    {"detections", "violations", "total_detections", "violation_count",
     "compliance_status", "average_confidence"}

\* C13: detect_ppe, recognize_face and encode_face_from_image never raise
\* to the caller: every call ends with a return, detect_ppe with a verdict
\* record of the six fields, the other two with a pair whose first
\* component is None exactly when the operation failed.
C13_NoFaultEscapes ==
    /\ dpc \in {"idle", "loop", "done"}
    /\ rpc \in {"idle", "compare", "distance", "decide", "done"}
    /\ epc \in {"idle", "done"}
    /\ Returned =>
          /\ DOMAIN verdict = VerdictFields
          /\ raised => verdict.compliance_status = "ERROR"
    /\ Recognized =>
          /\ result.ok <=> result.reason = "Face recognized successfully"
          /\ result.ok => result.username \in NamesOf(known_face_names)
          /\ ~result.ok =>
                result.reason \in {"No face detected",
                                   "Could not extract face features",
                                   "Face not recognized",
                                   "Error processing face"}
    /\ Encoded =>
          /\ encoded.ok <=> encoded.reason = "Face encoded successfully"
          /\ collaborators.fault => encoded = Failure("Error processing face")
          /\ ~encoded.ok =>
                encoded.reason \in
                    {"No face detected in the image",
                     "Multiple faces detected. Please ensure only one face is visible",
                     "Could not extract face features",
                     "Error processing face"}

\* a collaborator of recognize_face raised on an image of two faces
C13_Witness ==
    /\ Recognized
    /\ Len(image) = 2
    /\ ri = 1
    /\ result = Failure("Error processing face")

-----------------------------------------------------------------------------
(* More claims about detect_ppe, under SpecDetector *)

IsViolation(box) ==
    box.cls < Len(PPE_CLASSES)
    /\ InSeq(PPE_CLASSES[box.cls + 1], VIOLATION_CLASSES)

InVocabulary(detection) == InSeq(detection.class_name, VIOLATION_CLASSES)

\* C14: the violations of a fault-free verdict are, in order, one record
\* per detection whose class_name is a violation class, with the confidence
\* and the box origin and size of that detection; and violation_count =
\* len(violations) <= total_detections = len(detections).
C14_ViolationsAreTheViolatingDetections ==
    ReturnedClean =>
        LET vd == SelectSeq(verdict.detections, InVocabulary)
            vb == SelectSeq(boxes, IsViolation)
        IN  /\ Len(verdict.violations) = Len(vd)
            /\ Len(verdict.violations) = Len(vb)
            /\ \A i \in 1..Len(verdict.violations) :
                  /\ verdict.violations[i].violation_type = vd[i].class_name
                  /\ verdict.violations[i].confidence = vd[i].confidence
                  /\ verdict.violations[i].bbox_x = vd[i].bbox[1]
                  /\ verdict.violations[i].bbox_y = vd[i].bbox[2]
                  /\ verdict.violations[i].bbox_width = vd[i].width
                  /\ verdict.violations[i].bbox_height = vd[i].height
                  /\ verdict.violations[i].confidence = vb[i].conf
                  /\ verdict.violations[i].bbox_width = vb[i].xyxy[3] - vb[i].xyxy[1]
                  /\ verdict.violations[i].bbox_height = vb[i].xyxy[4] - vb[i].xyxy[2]
            /\ verdict.violation_count = Len(verdict.violations)
            /\ verdict.total_detections = Len(verdict.detections)
            /\ verdict.violation_count <= verdict.total_detections

\* no_helmet, helmet, no_mask: the two violations keep their order
C14_Witness ==
    /\ ReturnedClean
    /\ Len(boxes) = 3
    /\ boxes[1].cls = 7
    /\ boxes[2].cls = 2
    /\ boxes[3].cls = 8
    /\ boxes[1].xyxy # boxes[3].xyxy
    /\ Len(verdict.violations) = 2
    /\ verdict.violations[1].violation_type = "no_helmet"
    /\ verdict.violations[2].violation_type = "no_mask"

\* C15: detect_ppe produces one detection for every box the model returned,
\* in model order and whatever its confidence, each keeping the confidence
\* and the coordinates of its box, with width = x2 - x1 and height =
\* y2 - y1; total_detections is the number of boxes.
C15_OneDetectionPerBox ==
    /\ dpc = "loop" =>
          /\ Len(detections) = di - 1
          /\ \A i \in 1..Len(detections) : detections[i].confidence = boxes[i].conf
    /\ ReturnedClean =>
          /\ verdict.total_detections = Len(boxes)
          /\ Len(verdict.detections) = Len(boxes)
          /\ \A i \in 1..Len(boxes) :
                /\ verdict.detections[i].confidence = boxes[i].conf
                /\ verdict.detections[i].bbox = boxes[i].xyxy
                /\ verdict.detections[i].width = boxes[i].xyxy[3] - boxes[i].xyxy[1]
                /\ verdict.detections[i].height = boxes[i].xyxy[4] - boxes[i].xyxy[2]
                /\ boxes[i].cls < Len(PPE_CLASSES) =>
                      verdict.detections[i].class_name = PPE_CLASSES[boxes[i].cls + 1]

\* three boxes, the second of low confidence and of a class that is not in
\* the vocabulary
C15_Witness ==
    /\ ReturnedClean
    /\ Len(boxes) = 3
    /\ boxes[1].conf = 90
    /\ boxes[2].conf = 50
    /\ boxes[2].cls = 12
    /\ boxes[2].xyxy = <<3, 2, 7, 3>>
    /\ verdict.total_detections = 3
    /\ verdict.detections[2].class_name = "object_12"
    /\ verdict.detections[2].width = 4

RECURSIVE SumBoxConf(_)
SumBoxConf(bs) == IF bs = <<>> THEN 0 ELSE bs[1].conf + SumBoxConf(Tail(bs))

\* C16: for a non-empty detection list, average_confidence multiplied by
\* total_detections is the sum of the confidences of all detections,
\* violations or not.
C16_MeanIsOverAllDetections ==
    (ReturnedClean /\ Len(boxes) > 0) =>
        /\ verdict.average_confidence.den # 0
        /\ verdict.average_confidence.num * verdict.total_detections
              = SumBoxConf(boxes) * verdict.average_confidence.den

\* a violation of confidence 0.50 among two detections of confidence 0.90
C16_Witness ==
    /\ ReturnedClean
    /\ Len(boxes) = 3
    /\ boxes[1].conf = 90
    /\ boxes[2].conf = 50
    /\ boxes[3].conf = 90
    /\ ViolatingBoxes = {2}
    /\ verdict.average_confidence = [num |-> 230, den |-> 3]

\* C17: the compliance_status of every verdict is COMPLIANT, PARTIAL,
\* VIOLATION or ERROR, and it is ERROR exactly when a step of detect_ppe
\* raised.
C17_StatusIsOneOfFour ==
    Returned =>
        /\ verdict.compliance_status \in {"COMPLIANT", "PARTIAL", "VIOLATION", "ERROR"}
        /\ verdict.compliance_status = "ERROR" <=> raised

\* nothing raised in a call whose boxes are all violations
C17_Witness ==
    /\ ReturnedClean
    /\ Len(boxes) = MaxBoxes
    /\ Cardinality(ViolatingBoxes) = MaxBoxes
    /\ verdict.compliance_status = "VIOLATION"

-----------------------------------------------------------------------------
(* The claims about enrollment and the registry, under SpecEnroll *)

\* the step is one of load_known_faces
LoadRuns == lpc # "idle" \/ lpc' # "idle"

\* the rows of the table that the last load_known_faces was not given
EnrolledSinceReload ==
    { i \in 1..Len(db) : \A j \in 1..Len(employees) : employees[j] # db[i] }

\* C18: known_face_encodings, known_face_names and tolerance change only in
\* steps of load_known_faces: encode_face_from_image, recognize_face,
\* draw_face_rectangle and the enrollment of an employee leave them as they
\* are, so recognize_face never returns an employee who was enrolled after
\* the last reload.
C18_RegistryChangesOnlyByReload ==
    /\ [][~LoadRuns => UNCHANGED regvars]_vars
    /\ [](tolerance = DefaultTolerance)
    /\ []((Recognized /\ result.ok) =>
            \A i \in EnrolledSinceReload : result.username # db[i].username)

\* bob was enrolled with a photo after the reload of the empty table, and
\* the same photo is not recognized
C18_Witness ==
    /\ lpc = "idle"
    /\ employees = <<>>
    /\ known_face_names = <<>>
    /\ Len(db) = 1
    /\ db[1].username = "bob"
    /\ db[1].face_encoding = json_dumps(18)
    /\ RecognizedClean
    /\ image = <<18>>
    /\ result.reason = "Face not recognized"

\* encode_face_from_image succeeds on the image that recognize_face was
\* given, and these are the employees given to the last load_known_faces
\* for whom json.dumps of its embedding is stored
EnrolledFromImage ==
    { i \in 1..Len(employees) :
        /\ encode_face_from_image(image, TRUE, FALSE).ok
        /\ employees[i].face_encoding =
              json_dumps(encode_face_from_image(image, TRUE, FALSE).encoding) }

\* C19: if encode_face_from_image succeeded on an image, its embedding was
\* stored as JSON for an employee and load_known_faces has loaded that
\* employee, then recognize_face on the same image returns a match, with
\* distance 0 and confidence 1, of an employee enrolled from that image.
C19_RoundTrip ==
    (RecognizedClean /\ EnrolledFromImage # {}) =>
        /\ result.ok
        /\ result.confidence = 10
        /\ face_distances[np_argmin(face_distances)] = 0
        /\ \E i \in EnrolledFromImage : employees[i].username = result.username

\* bob, the second employee of the table, is recognized on his photo
C19_Witness ==
    /\ RecognizedClean
    /\ Len(employees) = 2
    /\ employees[2].username = "bob"
    /\ employees[2].face_encoding = json_dumps(18)
    /\ employees[2].is_active
    /\ image = <<18>>
    /\ result.ok
    /\ result.username = "bob"
    /\ result.confidence = 10

\* C20 as stated: after load_known_faces(employees) the registry holds no
\* entry for an employee whose is_active is False, and recognize_face never
\* returns such an employee.
C20_NoDeactivatedIdentity ==
    /\ lpc = "idle" =>
          \A i \in 1..Len(employees) :
              ~employees[i].is_active =>
                  employees[i].username \notin NamesOf(known_face_names)
    /\ (Recognized /\ result.ok) =>
          \A i \in 1..Len(employees) :
              employees[i].username = result.username => employees[i].is_active

-----------------------------------------------------------------------------
(* The claim about draw_face_rectangle, under SpecEnroll *)

\* C21 as stated: draw_face_rectangle leaves the image buffer that the
\* caller passed unchanged; the annotation is only on the returned image,
\* a distinct copy.
C21_DrawLeavesCallerImage ==
    annotations = <<>>

-----------------------------------------------------------------------------
(* More claims about recognize_face, under SpecFaceSeq *)

\* C23: recognize_face on an image in which no face is found fails with the
\* no-face reason, whatever the registry contains, and does not consult the
\* registry: nothing is compared and no distance is computed.
C23_NoFaceWhateverTheRegistry ==
    (RecognizedClean /\ Len(image) = 0) =>
        /\ result = Failure("No face detected")
        /\ ri = 1
        /\ matches = <<>>
        /\ face_distances = <<>>

\* no face is found while two employees are enrolled
C23_Witness ==
    /\ RecognizedClean
    /\ lpc = "idle"
    /\ known_face_names = <<"alice", "bob">>
    /\ known_face_encodings = <<0, 10>>
    /\ image = <<>>
    /\ result.reason = "No face detected"

\* the registry entries at the least distance from face k of the image
Nearest(k) == { i \in Registry : \A j \in Registry : Dist(i, k) <= Dist(j, k) }

FirstNearest(k) == CHOOSE i \in Nearest(k) : \A j \in Nearest(k) : i <= j

\* C24: when several enrolled embeddings are at the same least distance
\* from the matched face, recognize_face returns the one that comes first
\* in the registry; the identity and the confidence returned are
\* determined by the registry and the image.
C24_TieGoesToFirstInRegistry ==
    (Recognized /\ result.ok) =>
        /\ ri = FirstCandidate
        /\ result.username = known_face_names[FirstNearest(ri)]
        /\ result.confidence = 10 - Dist(FirstNearest(ri), ri)
        /\ \A i \in Nearest(ri) :
              known_face_names[i] = result.username \/ i > FirstNearest(ri)

\* bob and alice are both at distance 0.5 from the face; bob is first
C24_Witness ==
    /\ Recognized
    /\ result.ok
    /\ known_face_names = <<"bob", "alice">>
    /\ known_face_encodings = <<10, 0>>
    /\ image = <<5>>
    /\ Nearest(1) = {1, 2}
    /\ result.username = "bob"
    /\ result.confidence = 5

-----------------------------------------------------------------------------
(* More claims about get_compliance_status and detect_ppe, under           *)
(* SpecDetector                                                            *)

\* a list of n elements
ListOf(n) == [i \in 1..n |-> i]

\* C25 as stated: get_compliance_status returns VIOLATION only when more
\* than 50% of the detections are violations.
C25_ViolationOnlyAboveHalf ==
    /\ \A n, v \in 0..MaxBoxes :
          get_compliance_status(ListOf(n), ListOf(v)) = "VIOLATION" => 2 * v > n
    /\ (ReturnedClean /\ verdict.compliance_status = "VIOLATION") =>
          2 * verdict.violation_count > verdict.total_detections

\* the boxes whose class id is outside the class vocabulary of config.py
UnknownBoxes == { i \in 1..Len(boxes) : boxes[i].cls >= Len(PPE_CLASSES) }

\* C29: a box whose class id is outside the class vocabulary is labelled
\* 'object_<id>', is never a violation, and is counted in total_detections
\* and in average_confidence, so that it lowers the fraction of violations
\* that decides between VIOLATION and PARTIAL.
C29_UnknownClassIsCountedNotViolating ==
    ReturnedClean =>
        /\ verdict.total_detections = Len(boxes)
        /\ Len(verdict.detections) = Len(boxes)
        /\ \A i \in UnknownBoxes :
              /\ verdict.detections[i].class_name = "object_" \o ToString(boxes[i].cls)
              /\ verdict.detections[i].confidence = boxes[i].conf
              /\ i \notin ViolatingBoxes
        /\ \A j \in 1..Len(verdict.violations) :
              \A i \in UnknownBoxes :
                  verdict.violations[j].violation_type
                      # "object_" \o ToString(boxes[i].cls)
        /\ verdict.violation_count = Cardinality(ViolatingBoxes)
        /\ verdict.average_confidence =
              (IF Len(boxes) = 0 THEN [num |-> 0, den |-> 1]
               ELSE [num |-> SumBoxConf(boxes), den |-> Len(boxes)])
        /\ (Cardinality(ViolatingBoxes) = 1 /\ Cardinality(UnknownBoxes) = 2) =>
              verdict.compliance_status = "PARTIAL"

\* a missing helmet and two unknown objects: PARTIAL, where the missing
\* helmet alone is VIOLATION
C29_Witness ==
    /\ ReturnedClean
    /\ Len(boxes) = 3
    /\ boxes[1].cls = 7
    /\ boxes[1].conf = 90
    /\ UnknownBoxes = {2, 3}
    /\ boxes[2].conf = 50
    /\ verdict.detections[2].class_name = "object_12"
    /\ verdict.total_detections = 3
    /\ verdict.violation_count = 1
    /\ verdict.compliance_status = "PARTIAL"

-----------------------------------------------------------------------------
(* More claims about load_known_faces, under SpecFaceSeq *)

\* C27: after any sequence of load_known_faces calls, run one at a time,
\* known_face_encodings and known_face_names have the same length, and
\* entry i of the names is the username of the employee whose stored
\* embedding is entry i of the encodings.
C27_NamesAlignWithEncodings ==
    /\ lpc \in {"idle", "loop"} =>
          Len(known_face_names) = Len(known_face_encodings)
    /\ lpc = "idle" =>
          \A i \in 1..Len(known_face_names) :
              \E j \in 1..Len(employees) :
                  /\ employees[j].username = known_face_names[i]
                  /\ employees[j].face_encoding = json_dumps(known_face_encodings[i])

\* the second load: an employee without encoding, then bob
C27_Witness ==
    /\ lpc = "idle"
    /\ old_names = <<"alice", "bob">>
    /\ Len(employees) = 2
    /\ employees[1].username = "alice"
    /\ employees[1].face_encoding.kind = "malformed"
    /\ employees[2].username = "bob"
    /\ known_face_names = <<"bob">>
    /\ known_face_encodings = <<10>>

Parseable(employee) ==
    Truthy(employee.face_encoding) /\ ~json_loads_raises(employee.face_encoding)

\* the place in the registry of employee j of the list
Place(j) == Cardinality({ k \in 1..j : Parseable(employees[k]) })

\* C28: load_known_faces skips an employee whose stored face_encoding is
\* None, empty or not parseable, and every employee of the list with a
\* parseable encoding is in the registry afterwards, in the order of the
\* list, whatever entries precede or follow it.
C28_UnusableEncodingsAreSkipped ==
    lpc = "idle" =>
        /\ Len(known_face_names) = Place(Len(employees))
        /\ Len(known_face_encodings) = Place(Len(employees))
        /\ \A j \in 1..Len(employees) :
              Parseable(employees[j]) =>
                  /\ known_face_names[Place(j)] = employees[j].username
                  /\ known_face_encodings[Place(j)] = employees[j].face_encoding.value

\* an employee whose stored text is no JSON precedes bob
C28_Witness ==
    /\ lpc = "idle"
    /\ Len(employees) = 2
    /\ employees[1].face_encoding.kind = "malformed"
    /\ employees[2].face_encoding = json_dumps(0)
    /\ employees[2].username = "bob"
    /\ known_face_names = <<"bob">>
    /\ known_face_encodings = <<0>>

-----------------------------------------------------------------------------
(* More claims about recognize_face running while load_known_faces runs,   *)
(* under SpecFaceConc                                                      *)

\* the embedding of the registry entry that known_face_names[b] is the name
\* of: before line 49 of a running reload the names are those of the old
\* registry, afterwards those of the employees being loaded
EntryEmbedding(b) ==
    IF lpc = "reset_names" THEN old_encodings[b]
                           ELSE UsableEncodings(employees)[b]

\* C26 as stated: every match returned by recognize_face, also one computed
\* while load_known_faces runs, names the registry entry whose embedding
\* was found within tolerance of the face: the username returned is the
\* name of an entry whose embedding is within tolerance.
C26_MatchNamesTheMatchedEntry ==
    [][recognize_face_match =>
          Abs(EntryEmbedding(np_argmin(face_distances)) - image[ri]) <= tolerance]_vars

-----------------------------------------------------------------------------
(* The claim about concurrent detect_ppe calls, under SpecDetectorConc *)

DetectionsOf(bs) == [i \in 1..Len(bs) |-> Detection(bs[i])]

ViolationsOf(bs) ==
    LET vb == SelectSeq(bs, IsViolation)
    IN  [i \in 1..Len(vb) |-> ViolationRecord(vb[i])]

\* the verdict of a detect_ppe call that runs alone and gets the boxes bs
VerdictAlone(bs) == ReturnVerdict(DetectionsOf(bs), ViolationsOf(bs))

\* C22: no step of detect_ppe changes class_names or violation_classes, and
\* in every interleaving of two detect_ppe calls on one detector each call
\* returns the verdict it returns when it runs alone.
C22_ConcurrentCallsAreIndependent ==
    /\ [][UNCHANGED DetectorFields]_vars
    /\ [](/\ class_names = PPE_CLASSES
          /\ violation_classes = VIOLATION_CLASSES)
    /\ [](ReturnedClean => verdict = VerdictAlone(boxes))
    /\ []((other.pc = "done" /\ ~other.raised) =>
             other.verdict = VerdictAlone(other.boxes))
    /\ []((Returned /\ raised) => verdict = FaultVerdict(<<>>, <<>>))
    /\ []((other.pc = "done" /\ other.raised) =>
             other.verdict = FaultVerdict(<<>>, <<>>))

\* both calls are in the middle of their loops: one has converted a
\* missing helmet, the other two boxes that are no violations
C22_Witness ==
    /\ dpc = "loop"
    /\ Len(boxes) = 2
    /\ di = 2
    /\ Len(detections) = 1
    /\ Len(violations) = 1
    /\ other.pc = "loop"
    /\ Len(other.boxes) = 3
    /\ other.i = 3
    /\ Len(other.detections) = 2
    /\ Len(other.violations) = 0

-----------------------------------------------------------------------------
(* The claim about the admin panel, under SpecPanel *)

\* C30: the admin functions are shown only in a session whose
\* admin_logged_in is true; admin_logged_in becomes true only by a login
\* attempt whose username and password are both the configured ones, and a
\* failed attempt leaves the session not logged in.  The table of
\* employees is written only from a session that is logged in.
C30_AdminFunctionsNeedLogin ==
    /\ [](shown \in AdminFunctions => LoggedIn)
    /\ [](LoggedIn =>
            login_form = [username |-> ADMIN_USERNAME, password |-> ADMIN_PASSWORD])
    /\ []((login_form # NoAttempt
             /\ login_form # [username |-> ADMIN_USERNAME, password |-> ADMIN_PASSWORD])
            => (~LoggedIn /\ shown = "login"))
    /\ [][(~LoggedIn /\ LoggedIn') =>
            /\ login_form'.username = ADMIN_USERNAME
            /\ login_form'.password = ADMIN_PASSWORD]_vars
    /\ [][db' # db => LoggedIn]_vars

\* an attempt with the right username and a wrong password has failed
C30_Witness ==
    /\ login_form = [username |-> "admin", password |-> "admin"]
    /\ shown = "login"
    /\ ~LoggedIn
    /\ db = <<>>

=============================================================================
